---- MODULE Spec2Model ----
(***************************************************************************)
(* Model of the hunter candidate graph: the schema registry                *)
(* (domains/schema.py), the query builder (utils/cypher_builder.py), the   *)
(* generic dictionary repository (repository/feature_repo.py) and the      *)
(* candidate CRUD of repository/candidate_repo.py, executed against a      *)
(* property-graph store that carries the constraints of db/constraints.py. *)
(* A Cypher statement is one atomic step of the store.                     *)
(***************************************************************************)
EXTENDS Integers, Sequences, FiniteSets, TLC

\* ---------------------------------------------------------------- bounds
MaxNodes == 2      \* dictionary nodes in the store
MaxCands == 2      \* Candidate nodes in the store
MaxRels  == 2      \* relationships in the store
MaxClients == 2    \* concurrent callers of upsert

\* ---------------------------------------------------------------- values
Nil == "null"      \* Python None / Cypher null (an absent property reads as null)
NullNum == -1      \* null where the value is a number (numbers stored are >= 0)
NOW == "now"       \* the value of Cypher datetime()

IntVals   == {"3"}
FloatVals == {"0.5", "0.8"}
BoolVals  == {"True"}

\* Python runtime type of a property value
PyType(v) ==
  IF v = Nil THEN "NoneType"
  ELSE IF v \in IntVals THEN "int"
  ELSE IF v \in FloatVals THEN "float"
  ELSE IF v \in BoolVals THEN "bool"
  ELSE "str"

\* isinstance(v, py_type): bool is a subclass of int
isinstance(v, types) == PyType(v) \in types \/ (PyType(v) = "bool" /\ "int" \in types)

\* ---------------------------------------------------------------- type catalog
Candidate == "Candidate"
Labels == {"Skill", "Project", "Language", "JobTitle", "Major", "University"}

KeyField(L) == IF L = "JobTitle" THEN "title" ELSE "name"

RelTypeOf(L) ==
  CASE L = "Skill"      -> "HAS_SKILL"
    [] L = "Project"    -> "WORKED_ON"
    [] L = "Language"   -> "SPEAKS"
    [] L = "JobTitle"   -> "HAS_TITLE"
    [] L = "Major"      -> "MAJORED_IN"
    [] L = "University" -> "GRADUATED_FROM"

RelTypes == {RelTypeOf(L) : L \in Labels}

\* ---------------------------------------------------------------- property maps
\* A Python dict of properties: the keys present and their values.  A key can
\* be present with the value None, which differs from an absent key.
PropKeys == {"uid", "name", "title", "eid", "created_at", "updated_at",
             "weight", "experience_years", "bogus"}

NoVals == [k \in PropKeys |-> Nil]

EmptyProps == [dom |-> {}, val |-> NoVals]
Prop1(k, v) == [dom |-> {k}, val |-> [NoVals EXCEPT ![k] = v]]
Prop2(k1, v1, k2, v2) == [dom |-> {k1, k2}, val |-> [NoVals EXCEPT ![k1] = v1, ![k2] = v2]]

\* ---------------------------------------------------------------- schema registry
dict_common == {"uid", "created_at", "updated_at"}
rel_common  == {"eid", "created_at", "updated_at"}

\* declared property names of a node label
NodeProperties(L) ==
  IF L = Candidate
  THEN {"uid", "name", "location", "headline", "remote_ok", "experience_years",
        "salary_currency", "salary_min", "salary_max", "created_at", "updated_at"}
  ELSE dict_common \cup {KeyField(L)}

NodeRequired(L) == IF L = Candidate THEN {"name"} ELSE {KeyField(L)}

\* declared property names of a relationship type
RelProperties(T) ==
  CASE T = "HAS_SKILL"      -> rel_common \cup {"level", "level_num", "years", "weight"}
    [] T = "WORKED_ON"      -> rel_common \cup {"since", "until", "role", "description",
                                 "objective", "contribution", "impact", "duration",
                                 "collaboration_type", "scale", "tech_stack", "skills_applied"}
    [] T = "SPEAKS"         -> rel_common \cup {"level", "level_num"}
    [] T = "HAS_TITLE"      -> rel_common \cup {"since", "until"}
    [] T = "MAJORED_IN"     -> rel_common \cup {"degree", "gpa"}
    [] T = "GRADUATED_FROM" -> rel_common \cup {"year"}

RelStart(T) == Candidate
RelEnd(T) == CHOOSE L \in Labels : RelTypeOf(L) = T

\* declared Python types of a property (PropertySpec.py_type)
PropTypes(k) ==
  CASE k \in {"years", "weight", "gpa", "experience_years", "salary_min", "salary_max"}
            -> {"int", "float"}
    [] k \in {"level_num", "year"} -> {"int"}
    [] k \in {"level", "since", "until"} -> {"int", "str"}
    [] k = "remote_ok" -> {"bool"}
    [] k \in {"tech_stack", "skills_applied"} -> {"list"}
    [] OTHER -> {"str"}

\* NodeSchema.validate_props: TRUE iff GraphSchemaError is raised
NodeSchemaRejects(L, p) ==
  \/ \E k \in p.dom : k \notin NodeProperties(L)
  \/ \E k \in NodeRequired(L) : k \notin p.dom
  \/ \E k \in p.dom : p.val[k] # Nil /\ ~isinstance(p.val[k], PropTypes(k))

\* RelationshipSchema.validate: TRUE iff GraphSchemaError is raised
RelSchemaRejects(T, sl, el, p) ==
  \/ sl # RelStart(T) \/ el # RelEnd(T)
  \/ \E k \in p.dom : k \notin RelProperties(T)
  \/ \E k \in p.dom : p.val[k] # Nil /\ ~isinstance(p.val[k], PropTypes(k))

\* ---------------------------------------------------------------- helpers
\* str.strip() on a string given as a sequence of characters
RECURSIVE LStrip(_)
LStrip(s) == IF s # <<>> /\ Head(s) = " " THEN LStrip(Tail(s)) ELSE s
RECURSIVE RStrip(_)
RStrip(s) == IF s # <<>> /\ s[Len(s)] = " " THEN RStrip(SubSeq(s, 1, Len(s) - 1)) ELSE s
\* the characters of a sequence joined into one string value
RECURSIVE Join(_)
Join(s) == IF s = <<>> THEN "" ELSE Head(s) \o Join(Tail(s))
_strip_or_none(s) == Join(RStrip(LStrip(s)))

\* Python truthiness of an Optional[str] argument
Falsy(x) == x = Nil \/ x = ""

coalesce(a, b) == IF a # Nil THEN a ELSE b

\* Cypher randomUUID(): a value that equals no identifier in use.  Generated
\* identifiers are opaque and interchangeable, so the draw for the object kind
\* (a node's label and key, a relationship's type and end points) is written
\* kind#i for the first i not in use.
UuidPool == 1..(MaxNodes + MaxCands + MaxRels + 2)
randomUUID(used, kind) ==
  LET id(j) == kind \o "#" \o ToString(j)
      i == CHOOSE j \in UuidPool : id(j) \notin used /\ \A h \in 1..(j - 1) : id(h) \in used
  IN id(i)

\* ---------------------------------------------------------------- state
VARIABLES
  nodes,   \* the nodes of the store: [id, label, uid, key, location, remote_ok,
           \* experience_years, salary_max, created_at, updated_at]
  rels,    \* the relationships of the store: [id, type, src, dst, props]
  last,    \* the last repository call: its result, error and storage calls
  clients  \* the concurrent callers of upsert: where each one is in its call

vars == <<nodes, rels, last, clients>>

\* relationship properties the store keeps in this model
RelKeys == {"eid", "created_at", "updated_at", "weight", "cost", "level_num", "years"}
NumRelKeys == {"level_num", "years"}
NoRelProps == [k \in RelKeys |-> IF k \in NumRelKeys THEN NullNum ELSE Nil]

\* labels whose natural key carries a uniqueness constraint (the "UNIQUE
\* dictionaries" block of QUERIES; Project has an index on name only)
UniqueKeyLabels == {"Language", "Skill", "JobTitle", "University", "Major"}
\* labels whose uid carries a uniqueness constraint ("UNIQUE by uid" block)
UniqueUidLabels == Labels \cup {Candidate}

\* TRUE iff the node set satisfies every constraint of QUERIES
ConstraintsHold(ns) ==
  \A n1, n2 \in ns :
    (n1.id # n2.id /\ n1.label = n2.label) =>
      /\ (n1.label \in UniqueUidLabels /\ n1.uid # Nil) => n1.uid # n2.uid
      /\ (n1.label \in UniqueKeyLabels /\ n1.key # Nil) => n1.key # n2.key

\* internal ids: an id no stored object has; it is written as the kind of the
\* object (a node's label and first uid, a relationship's type and end points)
\* and the first number not in use for that kind
FreshId(S, kind) ==
  <<kind, CHOOSE i \in 1..(Cardinality(S) + 1) :
            /\ <<kind, i>> \notin {x.id : x \in S}
            /\ \A h \in 1..(i - 1) : <<kind, h>> \in {x.id : x \in S}>>

\* read / write one property of a node record
NodeGet(n, k) ==
  CASE k = "uid" -> n.uid
    [] k \in {"name", "title"} -> n.key
    [] k = "location" -> n.location
    [] k = "created_at" -> n.created_at
    [] k = "updated_at" -> n.updated_at

NodeSet(n, k, v) ==
  CASE k = "uid" -> [n EXCEPT !.uid = v]
    [] k \in {"name", "title"} -> [n EXCEPT !.key = v]
    [] k = "location" -> [n EXCEPT !.location = v]
    [] k = "created_at" -> [n EXCEPT !.created_at = v]
    [] k = "updated_at" -> [n EXCEPT !.updated_at = v]

RECURSIVE NodeSetAll(_, _, _)
NodeSetAll(n, keys, val) ==
  IF keys = {} THEN n
  ELSE LET k == CHOOSE x \in keys : TRUE
       IN NodeSetAll(NodeSet(n, k, val[k]), keys \ {k}, val)

BlankNode(id, L) ==
  [id |-> id, label |-> L, uid |-> Nil, key |-> Nil, location |-> Nil,
   remote_ok |-> Nil, experience_years |-> NullNum, salary_max |-> NullNum,
   created_at |-> Nil, updated_at |-> Nil]

\* ---------------------------------------------------------------- query builder
GSE == "GraphSchemaError"

\* variant of build_merge_node: the value of the key is written into the
\* statement text instead of being bound
build_merge_node_literal(L, p, merge_on) ==
  IF NodeSchemaRejects(L, p) THEN [err |-> GSE]
  ELSE IF merge_on = {} THEN [err |-> GSE]
  ELSE IF \E k \in merge_on : k \notin p.dom THEN [err |-> GSE]
  ELSE [err |-> "none", label |-> L, merge_on |-> merge_on,
        set_keys |-> p.dom \ merge_on, literal |-> p.val[KeyField(L)],
        params |-> p.val]

\* build_merge_node: the error it raises, or the statement it returns as
\* (label, MERGE keys, SET keys, bound parameters)
build_merge_node(L, p, merge_on) ==
  IF NodeSchemaRejects(L, p) THEN [err |-> GSE]
  ELSE IF merge_on = {} THEN [err |-> GSE]
  ELSE IF \E k \in merge_on : k \notin p.dom THEN [err |-> GSE]
  ELSE [err |-> "none", label |-> L, merge_on |-> merge_on,
        set_keys |-> p.dom \ merge_on,
        params |-> p.val]          \* out_params["uid"] is None when props has no uid

\* build_link: the error it raises, or the statement it returns
build_link(sl, T, el, start_uid, end_uid, p) ==
  IF RelSchemaRejects(T, sl, el, p) THEN [err |-> GSE]
  ELSE [err |-> "none", start_label |-> sl, rel_type |-> T, end_label |-> el,
        set_keys |-> p.dom,
        params |-> [start_uid |-> start_uid, end_uid |-> end_uid,
                    rel |-> p.val,
                    rel_eid |-> IF "eid" \in p.dom THEN p.val["eid"] ELSE Nil]]

\* ---------------------------------------------------------------- store: statements
\* identifiers in use: every uid and eid of the store and the value last returned
Used(ns, rs, ret) == {m.uid : m \in ns} \cup {r.props["eid"] : r \in rs} \cup {ret}

\* The rows MERGE (n:L {merge keys}) binds on node set ns
MergeMatches(ns, q) ==
  {m \in ns : m.label = q.label /\ \A k \in q.merge_on : NodeGet(m, k) = q.params[k]}

\* MERGE (n:L {merge keys}) ON CREATE SET .. ON MATCH SET .. RETURN n.uid
\* run as one statement.  rows is the set of values the returned rows hold;
\* the caller reads rows[0].
ExecMergeNode(ns, used, q) ==
  LET M == MergeMatches(ns, q)
      fail(e) == [err |-> e, nodes |-> ns, rows |-> {}]
  IN
  IF \E k \in q.merge_on : q.params[k] = Nil THEN fail("ClientError")
  ELSE IF M = {} THEN
    LET key == q.params[KeyField(q.label)]
        uid == coalesce(q.params["uid"], randomUUID(used, q.label \o ":" \o key))
        n0 == NodeSetAll(BlankNode(FreshId(ns, <<q.label, uid>>), q.label), q.merge_on, q.params)
        n1 == NodeSetAll(n0, q.set_keys, q.params)
        n2 == [n1 EXCEPT !.uid = uid, !.created_at = NOW]
        ns2 == ns \cup {n2}
    IN IF ~ConstraintsHold(ns2) THEN fail("ConstraintError")
       ELSE [err |-> "none", nodes |-> ns2, rows |-> {n2.uid}]
  ELSE
    LET upd(m) == [NodeSetAll(m, q.set_keys, q.params) EXCEPT !.updated_at = NOW]
        ns2 == (ns \ M) \cup {upd(m) : m \in M}
    IN IF ~ConstraintsHold(ns2) THEN fail("ConstraintError")
       ELSE [err |-> "none", nodes |-> ns2, rows |-> {upd(m).uid : m \in M}]

\* variant of RelSetAll: SET r = $props, which drops every property the call omits
RelReplaceAll(pr, keys, val) == [k \in RelKeys |-> IF k \in keys THEN val[k] ELSE NoRelProps[k]]

RECURSIVE RelSetAll(_, _, _)
RelSetAll(pr, keys, val) ==
  IF keys = {} THEN pr
  ELSE LET k == CHOOSE x \in keys : TRUE
       IN RelSetAll([pr EXCEPT ![k] = val[k]], keys \ {k}, val)

\* variant of LinkMatches: CREATE (a)-[r:T]->(b), which binds no existing relationship
LinkCreates(rs, T, a, b) == {}

\* The relationships MERGE (a)-[r:T]->(b) binds
LinkMatches(rs, T, a, b) == {r \in rs : r.type = T /\ r.src = a.id /\ r.dst = b.id}

\* variant of ExecLink: OPTIONAL MATCH of the end nodes, which returns one row
\* with a null eid when a node is missing
ExecLinkOptionalMatch(ns, rs, used, q) == [rels |-> rs, rows |-> {Nil}]

\* MATCH (a:sl {uid}) MATCH (b:el {uid}) MERGE (a)-[r:T]->(b)
\* ON CREATE SET r.eid = coalesce($rel_eid, randomUUID()), r.created_at = datetime()
\* SET r.updated_at = datetime(), r.k = $rel_k ...  RETURN r.eid
ExecLink(ns, rs, used, q) ==
  LET A == {a \in ns : a.label = q.start_label /\ a.uid = q.params.start_uid}
      B == {b \in ns : b.label = q.end_label /\ b.uid = q.params.end_uid}
  IN
  IF A = {} \/ B = {} THEN [rels |-> rs, rows |-> {}]
  ELSE
    \* uid is unique per label, so there is one (a, b) row
    LET a == CHOOSE x \in A : TRUE
        b == CHOOSE x \in B : TRUE
        M == LinkMatches(rs, q.rel_type, a, b)
        set(pr) == RelSetAll([pr EXCEPT !["updated_at"] = NOW], q.set_keys, q.params.rel)
    IN
    IF M = {} THEN
      LET kind == q.rel_type \o ":" \o a.uid \o ">" \o b.uid
          r0 == [id |-> FreshId(rs, <<q.rel_type, a.id, b.id>>), type |-> q.rel_type,
                 src |-> a.id, dst |-> b.id,
                 props |-> set([NoRelProps EXCEPT
                                  !["eid"] = coalesce(q.params.rel_eid, randomUUID(used, kind)),
                                  !["created_at"] = NOW])]
      IN [rels |-> rs \cup {r0}, rows |-> {r0.props["eid"]}]
    ELSE
      LET upd(r) == [r EXCEPT !.props = set(r.props)]
      IN [rels |-> (rs \ M) \cup {upd(r) : r \in M},
          rows |-> {upd(r).props["eid"] : r \in M}]

\* variant of ExecDetachDelete: DELETE n without DETACH, the relationships stay
ExecDelete(ns, rs, L, uid) ==
  LET M == {m \in ns : m.label = L /\ m.uid = uid}
  IN [nodes |-> ns \ M, rels |-> rs, rows |-> Cardinality(M)]

\* MATCH (n:L {uid:$uid}) DETACH DELETE n RETURN 1 AS deleted
ExecDetachDelete(ns, rs, L, uid) ==
  LET M == {m \in ns : m.label = L /\ m.uid = uid}
      ids == {m.id : m \in M}
  IN [nodes |-> ns \ M,
      rels |-> {r \in rs : r.src \notin ids /\ r.dst \notin ids},
      rows |-> Cardinality(M)]

\* variant of delete: return 1 whether or not a row came back
delete_returns_one(ns, rs, L, uid) ==
  LET x == ExecDetachDelete(ns, rs, L, uid)
  IN [nodes |-> x.nodes, rels |-> x.rels, ret |-> 1]

\* _DictRepo.delete: the store after the call and the count it returns
delete(ns, rs, L, uid) ==
  LET x == ExecDetachDelete(ns, rs, L, uid)
  IN [nodes |-> x.nodes, rels |-> x.rels, ret |-> IF x.rows > 0 THEN 1 ELSE 0]

\* variant of MatchFromCandidate: MATCH (c:Candidate {uid})-[r]->(n), any type
MatchAnyFromCandidate(ns, rs, T, L, candidate_uid) ==
  {r \in rs : \E c \in ns : c.label = Candidate /\ c.uid = candidate_uid /\ c.id = r.src}

\* the relationships MATCH (c:Candidate {uid})-[r:T]->(n:L) binds
MatchFromCandidate(ns, rs, T, L, candidate_uid) ==
  {r \in rs : /\ r.type = T
              /\ \E c \in ns : c.label = Candidate /\ c.uid = candidate_uid /\ c.id = r.src
              /\ \E m \in ns : m.label = L /\ m.id = r.dst}

\* ---------------------------------------------------------------- feature repository
\* _DictRepo.upsert: the possible outcomes of one call
UpsertOutcomes(ns, rs, ret0, L, raw, uid) ==
  LET name == _strip_or_none(raw)
      fail(e, c) == {[err |-> e, nodes |-> ns, ret |-> Nil, calls |-> c]}
  IN
  IF name = "" THEN fail("ValueError", 0)
  ELSE
    LET p == IF ~Falsy(uid) THEN Prop2("uid", uid, KeyField(L), name)
                            ELSE Prop1(KeyField(L), name)
        merge_on == IF ~Falsy(uid) THEN {"uid"} ELSE {KeyField(L)}
        q == build_merge_node(L, p, merge_on)
    IN
    IF NodeSchemaRejects(L, p) THEN fail(GSE, 0)
    ELSE IF q.err # "none" THEN fail(q.err, 0)
    ELSE LET x == ExecMergeNode(ns, Used(ns, rs, ret0), q)
         IN IF x.err # "none" THEN fail(x.err, 1)
            ELSE {[err |-> "none", nodes |-> x.nodes, ret |-> r, calls |-> 1]
                    : r \in x.rows}            \* rows[0][0]

\* TRUE iff rel_props has a key the relationship type does not declare
UnknownRelKey(L, p) == \E k \in p.dom : k \notin RelProperties(RelTypeOf(L))

\* _DictRepo.link_by_uids: the possible outcomes of one call
LinkByUidsOutcomes(ns, rs, ret0, L, candidate_uid, feature_uid, p) ==
  LET T == RelTypeOf(L)
      fail(e, c) == {[err |-> e, rels |-> rs, ret |-> Nil, calls |-> c]}
      q == build_link(Candidate, T, L, candidate_uid, feature_uid, p)
  IN
  IF Falsy(candidate_uid) \/ Falsy(feature_uid) THEN fail("ValueError", 0)
  ELSE IF RelSchemaRejects(T, Candidate, L, p) THEN fail(GSE, 0)
  ELSE IF q.err # "none" THEN fail(q.err, 0)
  ELSE LET x == ExecLink(ns, rs, Used(ns, rs, ret0), q)
       IN IF x.rows = {} THEN fail("IndexError", 1)       \* rows[0] of an empty result
          ELSE {[err |-> "none", rels |-> x.rels, ret |-> r, calls |-> 1] : r \in x.rows}

\* _DictRepo.list_for_candidate (skip = 0 and the default limit, which exceeds MaxRels)
list_for_candidate(ns, rs, L, candidate_uid) ==
  {[uid |-> x[2].uid, key |-> x[2].key, rel_eid |-> x[1].props["eid"], rel_props |-> x[1].props]
     : x \in {y \in MatchFromCandidate(ns, rs, RelTypeOf(L), L, candidate_uid) \X ns
                : y[2].id = y[1].dst}}

\* ---------------------------------------------------------------- candidate repository
\* variant of on_match_location: SET c.location = $location, null included
on_match_location_overwrite(location, stored) == location

\* ON MATCH SET c.location = coalesce($location, c.location)
on_match_location(location, stored) == coalesce(location, stored)

\* upsert_candidate: the possible outcomes of one call.  With a uid the
\* statement is MERGE (c:Candidate {uid}), without one MERGE (c:Candidate {name});
\* the caller reads rows[0][0].
upsert_candidate(ns, rs, ret0, raw, location, uid) ==
  LET name == _strip_or_none(raw)
      M == IF ~Falsy(uid)
           THEN {c \in ns : c.label = Candidate /\ c.uid = uid}
           ELSE {c \in ns : c.label = Candidate /\ c.key = name}
      new_uid == IF ~Falsy(uid) THEN uid
                 ELSE randomUUID(Used(ns, rs, ret0), Candidate \o ":" \o name)
      new == [BlankNode(FreshId(ns, <<Candidate, new_uid>>), Candidate) EXCEPT
                !.uid = new_uid, !.key = name, !.location = location, !.created_at = NOW]
      upd(c) == [c EXCEPT !.key = IF ~Falsy(uid) THEN name ELSE c.key,
                          !.location = on_match_location(location, c.location),
                          !.updated_at = NOW]
  IN IF M = {} THEN {[nodes |-> ns \cup {new}, ret |-> new.uid]}
     ELSE {[nodes |-> (ns \ M) \cup {upd(m) : m \in M}, ret |-> r] : r \in {m.uid : m \in M}}

\* ---------------------------------------------------------------- ranking engine
\* Numbers of the ranking engine are integers: years count half years (so that
\* 2.5 years is 5), item weights count tenths, criterion scores count
\* 1/ScoreUnit and the final score counts 1/(100 * ScoreUnit); NullNum is null.
ScoreUnit == 4000

\* str.lower() / Cypher toLower() on the strings the model uses
toLower(s) ==
  CASE s = "Py" -> "py"
    [] s = "Go" -> "go"
    [] s = "En" -> "en"
    [] s = "Fr" -> "fr"
    [] s = "Dev" -> "dev"
    [] s = "Hanoi" -> "hanoi"
    [] s = "A1" -> "a1"
    [] s = "A2" -> "a2"
    [] s = "B1" -> "b1"
    [] s = "B2" -> "b2"
    [] s = "C1" -> "c1"
    [] s = "C2" -> "c2"
    [] OTHER -> s

SKILL_LEVEL_MAP == [beginner |-> 1, intermediate |-> 2, advanced |-> 3, expert |-> 4]
LANG_LEVEL_MAP == [A1 |-> 1, A2 |-> 2, B1 |-> 3, B2 |-> 4, C1 |-> 5, C2 |-> 6, native |-> 7]

\* DEFAULT_WEIGHTS, in hundredths
DEFAULT_WEIGHTS == [skills |-> 60, job_titles |-> 10, languages |-> 5,
                    education |-> 0, keywords |-> 0, location |-> 5]

\* _merge_weights: the defaults overridden by the weights the request gives
\* (in hundredths; NullNum is a key that is absent or None)
_merge_weights(w) ==
  [k \in DOMAIN DEFAULT_WEIGHTS |-> IF w[k] # NullNum THEN w[k] ELSE DEFAULT_WEIGHTS[k]]

\* _lc: x.lower().strip() when x is a string with a non-blank character, else None
_lc(x) == IF _strip_or_none(x) = "" THEN Nil ELSE toLower(_strip_or_none(x))

\* _num: int(x), which drops the fraction; the default 0 when int() raises
_num(x) == IF x = NullNum THEN 0 ELSE (x \div 2) * 2

\* _map_level: mapper.get(str(val).lower())
_map_level(mapper, val) ==
  IF Falsy(val) THEN NullNum
  ELSE IF toLower(val) \in DOMAIN mapper THEN mapper[toLower(val)]
  ELSE NullNum

\* match_candidates: the normalization of the payload into the statement's parameters
match_params(req) ==
  [mustSkills |-> [i \in DOMAIN req.must_skills |->
                     [name |-> _lc(req.must_skills[i].name),
                      min_level_num |-> _map_level(SKILL_LEVEL_MAP, req.must_skills[i].min_level),
                      min_years |-> _num(req.must_skills[i].min_years)]],
   mustLangs |-> [i \in DOMAIN req.must_langs |->
                     [name |-> _lc(req.must_langs[i].name),
                      min_level_num |-> _map_level(LANG_LEVEL_MAP, req.must_langs[i].min_level)]],
   mustTitles |-> [i \in DOMAIN req.job_titles_any |-> _lc(req.job_titles_any[i])],
   mustLocations |-> [i \in DOMAIN req.location_any |-> _lc(req.location_any[i])],
   remoteOk |-> req.remote_ok,
   salaryMax |-> req.salary_max,
   niceSkills |-> [i \in DOMAIN req.nice_skills |->
                     [name |-> _lc(req.nice_skills[i].name),
                      weight |-> req.nice_skills[i].weight,
                      prefer_min_years |-> _num(req.nice_skills[i].prefer_min_years),
                      prefer_level_num |-> _map_level(SKILL_LEVEL_MAP, req.nice_skills[i].prefer_level)]],
   niceTitles |-> [i \in DOMAIN req.nice_titles |-> _lc(req.nice_titles[i])],
   niceLangs |-> [i \in DOMAIN req.nice_langs |-> _lc(req.nice_langs[i])],
   locPref |-> _lc(req.location_preference),
   W |-> _merge_weights(req.weights),
   topK |-> req.top_k]

\* the elements of a list
Range(f) == {f[i] : i \in DOMAIN f}

\* coalesce on numbers
coalesceNum(a, b) == IF a # NullNum THEN a ELSE b

\* query_candidates: the normalization of the filters; min_years is kept when
\* str(min_years).isdigit(), which holds for whole numbers, and is 0 otherwise
query_params(req) ==
  [mustSkills |-> [i \in DOMAIN req.must_skills |->
                     [name |-> _lc(req.must_skills[i].name),
                      min_level_num |-> _map_level(SKILL_LEVEL_MAP, req.must_skills[i].min_level),
                      min_years |-> IF req.must_skills[i].min_years # NullNum
                                       /\ req.must_skills[i].min_years % 2 = 0
                                    THEN req.must_skills[i].min_years ELSE 0]],
   mustLangs |-> [i \in DOMAIN req.must_langs |->
                     [name |-> _lc(req.must_langs[i].name),
                      min_level_num |-> _map_level(LANG_LEVEL_MAP, req.must_langs[i].min_level)]],
   mustTitles |-> [i \in DOMAIN req.job_titles_any |-> _lc(req.job_titles_any[i])],
   mustLocations |-> [i \in DOMAIN req.location_any |-> _lc(req.location_any[i])],
   remoteOk |-> req.remote_ok,
   salaryMax |-> req.salary_max,
   skip |-> 0, limit |-> 50]

\* the rows of MATCH (c)-[r:T]->(n:L): pairs of a relationship and its end node
Facets(ns, rs, c, T, L) ==
  {x \in rs \X ns : x[1].type = T /\ x[1].src = c.id /\ x[2].label = L /\ x[2].id = x[1].dst}

\* the WHERE clause of the candidate scan: TRUE iff it evaluates to true (a
\* comparison with null is null, and a row whose predicate is null is dropped)
MustHaveHolds(ns, rs, c, P) ==
  /\ P.remoteOk = Nil \/ (c.remote_ok # Nil /\ c.remote_ok = P.remoteOk)
  \* coalesce(c.salary_max, c.salary_expectation.max): a node has no property
  \* salary_expectation, so the second argument is null
  /\ \/ P.salaryMax = NullNum
     \/ (c.salary_max # NullNum /\ c.salary_max <= P.salaryMax)
  /\ \/ Len(P.mustTitles) = 0
     \/ \E x \in Facets(ns, rs, c, "HAS_TITLE", "JobTitle") :
          toLower(x[2].key) \in Range(P.mustTitles) \ {Nil}
  /\ \/ Len(P.mustLocations) = 0
     \/ toLower(coalesce(c.location, "")) \in Range(P.mustLocations) \ {Nil}
  /\ \/ Len(P.mustLangs) = 0
     \/ \A i \in DOMAIN P.mustLangs :
          \E x \in Facets(ns, rs, c, "SPEAKS", "Language") :
            /\ P.mustLangs[i].name # Nil /\ toLower(x[2].key) = P.mustLangs[i].name
            /\ coalesceNum(x[1].props["level_num"], 0)
                 >= coalesceNum(P.mustLangs[i].min_level_num, 0)
  /\ \/ Len(P.mustSkills) = 0
     \/ \A i \in DOMAIN P.mustSkills :
          \E x \in Facets(ns, rs, c, "HAS_SKILL", "Skill") :
            /\ P.mustSkills[i].name # Nil /\ toLower(x[2].key) = P.mustSkills[i].name
            /\ coalesceNum(x[1].props["level_num"], 0)
                 >= coalesceNum(P.mustSkills[i].min_level_num, 0)
            /\ coalesceNum(x[1].props["years"], 0)
                 >= coalesceNum(P.mustSkills[i].min_years, 0)

\* collect({name: toLower(sk.name), level_num: hs.level_num, years: hs.years})
CSkills(ns, rs, c) ==
  {[name |-> toLower(x[2].key), level_num |-> x[1].props["level_num"],
    years |-> x[1].props["years"]] : x \in Facets(ns, rs, c, "HAS_SKILL", "Skill")}
\* collect(toLower(jt.title))
CTitles(ns, rs, c) == {toLower(x[2].key) : x \in Facets(ns, rs, c, "HAS_TITLE", "JobTitle")}
\* collect({name: toLower(lg.name), level_num: sp.level_num})
CLangs(ns, rs, c) ==
  {[name |-> toLower(x[2].key), level_num |-> x[1].props["level_num"]]
     : x \in Facets(ns, rs, c, "SPEAKS", "Language")}

\* the term of one nice-to-have skill item in the reduce of S_skills, in
\* 1/ScoreUnit: ns.weight * (0.7 * level_num / 4.0 + 0.3 * capped years / 5.0)
\* for the skill of that name (a candidate has one relationship per skill), 0.0
\* when the candidate has none, null when level_num is null
SkillTerm(cs, item) ==
  LET hit == {x \in cs : item.name # Nil /\ x.name = item.name}
      h == CHOOSE x \in hit : TRUE          \* head([cs IN CSkills WHERE ...])
      cap == coalesceNum(item.prefer_min_years, 0) + 10
      years == IF coalesceNum(h.years, 0) <= cap THEN coalesceNum(h.years, 0) ELSE cap
  IN IF hit = {} THEN 0
     ELSE IF h.level_num = NullNum THEN NullNum
     ELSE 2 * item.weight * (35 * h.level_num + 6 * years)

\* reduce(acc = 0.0, x IN list | acc + term(x)); null once a term is null
RECURSIVE ReduceSum(_, _)
ReduceSum(terms, i) ==
  IF i = 0 THEN 0
  ELSE LET acc == ReduceSum(terms, i - 1)
       IN IF acc = NullNum \/ terms[i] = NullNum THEN NullNum ELSE acc + terms[i]

\* the four criterion scores of the statement, in 1/ScoreUnit (the lists of a
\* request have one or two items, which divide every sum exactly)
S_skills(ns, rs, c, P) ==
  IF Len(P.niceSkills) = 0 THEN 0
  ELSE LET terms == [i \in DOMAIN P.niceSkills |-> SkillTerm(CSkills(ns, rs, c), P.niceSkills[i])]
           sum == ReduceSum(terms, Len(terms))
       IN IF sum = NullNum THEN NullNum ELSE sum \div Len(P.niceSkills)

S_titles(ns, rs, c, P) ==
  IF Len(P.niceTitles) = 0 THEN 0
  ELSE IF \E t \in CTitles(ns, rs, c) : t \in Range(P.niceTitles) \ {Nil} THEN ScoreUnit
  ELSE 0

S_langs(ns, rs, c, P) ==
  IF Len(P.niceLangs) = 0 THEN 0
  ELSE LET hits == [i \in DOMAIN P.niceLangs |->
                      IF \E cl \in CLangs(ns, rs, c) :
                           P.niceLangs[i] # Nil /\ cl.name = P.niceLangs[i]
                      THEN ScoreUnit ELSE 0]
       IN ReduceSum(hits, Len(hits)) \div Len(P.niceLangs)

S_loc(c, P) ==
  IF P.locPref = Nil \/ P.locPref = "" THEN 0
  ELSE IF toLower(coalesce(c.location, "")) = P.locPref THEN ScoreUnit
  ELSE 0

\* final_score, in 1/(100 * ScoreUnit); null when a criterion score is null
final_score(W, sk, ti, la, lo) ==
  IF sk = NullNum THEN NullNum
  ELSE W.skills * sk + W.job_titles * ti + W.languages * la + W.location * lo

\* the row the statement returns for candidate c
MatchRow(ns, rs, c, P) ==
  LET sk == S_skills(ns, rs, c, P)
      ti == S_titles(ns, rs, c, P)
      la == S_langs(ns, rs, c, P)
      lo == S_loc(c, P)
  IN [uid |-> c.uid, score |-> final_score(P.W, sk, ti, la, lo),
      S_skills |-> sk, S_titles |-> ti, S_langs |-> la, S_loc |-> lo]

\* ORDER BY score DESC, coalesce(c.experience_years, 0) DESC,
\* coalesce(c.salary_max, 9e18) ASC: TRUE iff row a of candidate ca sorts
\* strictly before row b of candidate cb.  In descending order null comes first.
SortsBefore(a, ca, b, cb) ==
  LET ea == coalesceNum(ca.experience_years, 0)
      eb == coalesceNum(cb.experience_years, 0)
  IN IF a.score # b.score
     THEN a.score = NullNum \/ (b.score # NullNum /\ a.score > b.score)
     ELSE IF ea # eb THEN ea > eb
     ELSE IF ca.salary_max = NullNum THEN FALSE
     ELSE cb.salary_max = NullNum \/ ca.salary_max < cb.salary_max

\* the orders in which a statement can return the candidates of C, where B is
\* the set of pairs <<a, b>> such that a sorts strictly before b: every
\* arrangement in which no candidate stands after one it sorts strictly before
Orderings(C, B) ==
  {f \in [1..Cardinality(C) -> C] :
     /\ \A i, j \in DOMAIN f : i # j => f[i] # f[j]
     /\ \A i, j \in DOMAIN f : i < j => <<f[j], f[i]>> \notin B}

\* LIMIT n
Limit(seq, n) == SubSeq(seq, 1, IF Len(seq) < n THEN Len(seq) ELSE n)

\* _CYPHER_MATCH_AND_SCORE run with parameters P: the row lists it can return
ExecMatchAndScore(ns, rs, P) ==
  LET C == {c \in ns : c.label = Candidate /\ MustHaveHolds(ns, rs, c, P)}
      row(c) == MatchRow(ns, rs, c, P)
      before == {p \in C \X C : SortsBefore(row(p[1]), p[1], row(p[2]), p[2])}
  IN {Limit([i \in DOMAIN f |-> row(f[i])], P.topK) : f \in Orderings(C, before)}

\* the order of the candidate names the model uses; null sorts last
NameBefore(a, b) == a # Nil /\ (b = Nil \/ (a = "x" /\ b = "y"))

\* query_candidates: ORDER BY coalesce(c.experience_years, 0) DESC,
\* coalesce(c.salary_max, 9e18) ASC, c.name SKIP $skip LIMIT $limit
ExecQuery(ns, rs, P) ==
  LET C == {c \in ns : c.label = Candidate /\ MustHaveHolds(ns, rs, c, P)}
      zero == [score |-> 0]
      before ==
        {p \in C \X C :
           \/ SortsBefore(zero, p[1], zero, p[2])
           \/ (~SortsBefore(zero, p[2], zero, p[1]) /\ NameBefore(p[1].key, p[2].key))}
  IN {Limit([i \in DOMAIN f |-> [uid |-> f[i].uid]], P.limit) : f \in Orderings(C, before)}

\* round(float(x or 0.0), 6) of a final score, in millionths
RoundedScore(score) == IF score = NullNum THEN 0 ELSE (score * 5 + 1) \div 2
\* float(x or 0.0) of a criterion score, in 1/ScoreUnit
FloatOrZero(x) == IF x = NullNum THEN 0 ELSE x

\* match_candidates: the items built from the rows (without the projection of
\* the candidate to include_fields and without the reasons)
match_items(rows) ==
  [i \in DOMAIN rows |->
     [uid |-> rows[i].uid, score |-> RoundedScore(rows[i].score),
      s_sk |-> FloatOrZero(rows[i].S_skills), s_ti |-> FloatOrZero(rows[i].S_titles),
      s_la |-> FloatOrZero(rows[i].S_langs), s_lo |-> FloatOrZero(rows[i].S_loc)]]

\* match_candidates with explain: the reasons of the item built from a row, one
\* for each criterion whose score is > 0 (kind names the criterion by its weight
\* key; contribution is round(weight * score, 6), in millionths)
match_reasons(row, W) ==
  LET S == [skills |-> FloatOrZero(row.S_skills), job_titles |-> FloatOrZero(row.S_titles),
            languages |-> FloatOrZero(row.S_langs), location |-> FloatOrZero(row.S_loc)]
  IN {[kind |-> k, weight |-> W[k], contribution |-> RoundedScore(W[k] * S[k])] :
        k \in {x \in DOMAIN S : S[x] > 0}}

\* ---------------------------------------------------------------- calls
\* the arguments of a link call: the repository's label, the candidate uid, the
\* feature uid and rel_props
LinkArgs(L, candidate_uid, feature_uid, p) ==
  [label |-> L, cand |-> candidate_uid, feat |-> feature_uid, props |-> p]
NoArgs == LinkArgs("", "", "", EmptyProps)

\* a match or filter request: the payload of match_candidates / query_candidates
\* (names are character sequences, an absent string is the empty sequence)
EmptyReq ==
  [top_k |-> 10, must_skills |-> <<>>, must_langs |-> <<>>, job_titles_any |-> <<>>,
   location_any |-> <<>>, remote_ok |-> Nil, salary_max |-> NullNum,
   nice_skills |-> <<>>, nice_titles |-> <<>>, nice_langs |-> <<>>,
   location_preference |-> <<>>,
   weights |-> [skills |-> NullNum, job_titles |-> NullNum, languages |-> NullNum,
                education |-> NullNum, keywords |-> NullNum, location |-> NullNum],
   explain |-> TRUE]

\* the observation of one call: what it returned (ret, or the count cnt) or
\* raised, how many storage calls it made, how many relationships its statement
\* deleted (the relationships_deleted counter of the result summary), the
\* arguments of a link call, whether its rel_props had an undeclared key and
\* whether a name or id argument was blank
Call(op, ret, cnt, err, calls, rdel) ==
  [op |-> op, ret |-> ret, cnt |-> cnt, err |-> err, calls |-> calls, rdel |-> rdel,
   args |-> NoArgs, unknown |-> FALSE, blank |-> FALSE,
   req |-> EmptyReq, rows |-> <<>>,      \* the request and rows of a match or filter call
   stmt |-> [err |-> Nil]]               \* the result of a query builder call

LinkCall(op, ret, err, calls, L, candidate_uid, feature_uid, p) ==
  [Call(op, ret, 0, err, calls, 0) EXCEPT
     !.args = LinkArgs(L, candidate_uid, feature_uid, p),
     !.unknown = UnknownRelKey(L, p)]

NoCall == Call("none", Nil, 0, "none", 0, 0)

DictNodes(ns) == {m \in ns : m.label # Candidate}
CandNodes(ns) == {m \in ns : m.label = Candidate}

Bounded(ns, rs) ==
  /\ Cardinality(DictNodes(ns)) <= MaxNodes
  /\ Cardinality(CandNodes(ns)) <= MaxCands
  /\ Cardinality(rs) <= MaxRels

\* a concurrent caller of upsert(name): the label and stripped name of its call,
\* the rows its statement returned, whether the statement created the node, and
\* what the call returned or raised
Clients == 1..MaxClients
IdleClient ==
  [pc |-> "idle", label |-> "", name |-> "", rows |-> {}, created |-> FALSE,
   ret |-> Nil, err |-> "none"]

Init ==
  /\ nodes = {}
  /\ rels = {}
  /\ last = NoCall
  /\ clients = [c \in Clients |-> IdleClient]

\* Repo.upsert(name, uid)
Upsert(L, raw, uid) ==
  \E o \in UpsertOutcomes(nodes, rels, last.ret, L, raw, uid) :
    /\ Bounded(o.nodes, rels)
    /\ nodes' = o.nodes
    /\ rels' = rels
    /\ last' = [Call("upsert", o.ret, 0, o.err, o.calls, 0) EXCEPT
                  !.blank = (_strip_or_none(raw) = "")]
    /\ UNCHANGED clients

\* Repo.delete(uid)
Delete(L, uid) ==
  LET x == delete(nodes, rels, L, uid)
  IN /\ nodes' = x.nodes
     /\ rels' = x.rels
     /\ last' = Call("delete", Nil, x.ret, "none", 1, Cardinality(rels \ x.rels))
     /\ UNCHANGED clients

\* Repo.link_by_uids(candidate_uid, feature_uid, rel_props)
LinkByUids(L, candidate_uid, feature_uid, p) ==
  \E o \in LinkByUidsOutcomes(nodes, rels, last.ret, L, candidate_uid, feature_uid, p) :
    /\ Bounded(nodes, o.rels)
    /\ rels' = o.rels
    /\ nodes' = nodes
    /\ last' = [LinkCall("link_by_uids", o.ret, o.err, o.calls, L, candidate_uid, feature_uid, p)
                  EXCEPT !.blank = (Falsy(candidate_uid) \/ Falsy(feature_uid))]
    /\ UNCHANGED clients

\* Repo.link_by_name(candidate_uid, name, rel_props): upsert, then link_by_uids
LinkByName(L, candidate_uid, raw, p) ==
  \E u \in UpsertOutcomes(nodes, rels, last.ret, L, raw, Nil) :
    IF u.err # "none"
    THEN /\ UNCHANGED <<nodes, rels, clients>>
         /\ last' = [LinkCall("link_by_name", Nil, u.err, u.calls, L, candidate_uid, Nil, p)
                       EXCEPT !.blank = (Falsy(candidate_uid) \/ _strip_or_none(raw) = "")]
    ELSE \E o \in LinkByUidsOutcomes(u.nodes, rels, u.ret, L, candidate_uid, u.ret, p) :
           /\ Bounded(u.nodes, o.rels)
           /\ nodes' = u.nodes
           /\ rels' = o.rels
           /\ last' = [LinkCall("link_by_name", o.ret, o.err, u.calls + o.calls,
                                L, candidate_uid, u.ret, p)
                         EXCEPT !.blank = (Falsy(candidate_uid) \/ _strip_or_none(raw) = "")]
           /\ UNCHANGED clients

\* Repo.unlink_by_uids(candidate_uid, feature_uid)
UnlinkByUids(L, candidate_uid, feature_uid) ==
  LET M == {r \in MatchFromCandidate(nodes, rels, RelTypeOf(L), L, candidate_uid) :
              \E m \in nodes : m.id = r.dst /\ m.uid = feature_uid}
  IN /\ rels' = rels \ M
     /\ nodes' = nodes
     /\ last' = Call("unlink_by_uids", Nil, IF M # {} THEN 1 ELSE 0, "none", 1, Cardinality(M))
     /\ UNCHANGED clients

\* Repo.unlink_all_for_candidate(candidate_uid)
UnlinkAllForCandidate(L, candidate_uid) ==
  LET M == MatchFromCandidate(nodes, rels, RelTypeOf(L), L, candidate_uid)
  IN /\ rels' = rels \ M
     /\ nodes' = nodes
     /\ last' = Call("unlink_all_for_candidate", Nil, Cardinality(M), "none", 1, Cardinality(M))
     /\ UNCHANGED clients

\* candidate_repo.upsert_candidate(name, location, uid)
UpsertCandidate(raw, location, uid) ==
  \E o \in upsert_candidate(nodes, rels, last.ret, raw, location, uid) :
    /\ Bounded(o.nodes, rels)
    /\ nodes' = o.nodes
    /\ rels' = rels
    /\ last' = Call("upsert_candidate", o.ret, 0, "none", 1, 0)
    /\ UNCHANGED clients

\* candidate_repo.delete_candidate(uid)
DeleteCandidate(uid) ==
  LET x == ExecDetachDelete(nodes, rels, Candidate, uid)
  IN /\ nodes' = x.nodes
     /\ rels' = x.rels
     /\ last' = Call("delete_candidate", Nil, IF x.rows > 0 THEN 1 ELSE 0, "none", 1,
                      Cardinality(rels \ x.rels))
     /\ UNCHANGED clients

\* match_repo.match_candidates(payload): the rows of the statement
MatchCandidates(req) ==
  \E rows \in ExecMatchAndScore(nodes, rels, match_params(req)) :
    /\ last' = [Call("match_candidates", Nil, Len(rows), "none", 1, 0) EXCEPT
                  !.req = req, !.rows = rows]
    /\ UNCHANGED <<nodes, rels, clients>>

\* services.candidates.query_candidates(filters) with the default skip and limit
QueryCandidates(req) ==
  \E rows \in ExecQuery(nodes, rels, query_params(req)) :
    /\ last' = [Call("query_candidates", Nil, Len(rows), "none", 1, 0) EXCEPT
                  !.req = req, !.rows = rows]
    /\ UNCHANGED <<nodes, rels, clients>>

\* cypher_builder.validate_node(label, props)
ValidateNode(L, p) ==
  /\ last' = [Call("validate_node", Nil, 0, IF NodeSchemaRejects(L, p) THEN GSE ELSE "none", 0, 0)
                EXCEPT !.args = LinkArgs(L, "", "", p)]
  /\ UNCHANGED <<nodes, rels, clients>>

\* cypher_builder.validate_relationship(rel_type, start_label, end_label, props);
\* the arguments are kept as (label: rel_type, cand: start_label, feat: end_label)
ValidateRelationship(T, sl, el, p) ==
  /\ last' = [Call("validate_relationship", Nil, 0,
                    IF RelSchemaRejects(T, sl, el, p) THEN GSE ELSE "none", 0, 0)
                EXCEPT !.args = LinkArgs(T, sl, el, p)]
  /\ UNCHANGED <<nodes, rels, clients>>

\* the text of a built statement: everything but the bound parameters
StmtText(q) == [k \in DOMAIN q \ {"params"} |-> q[k]]

\* _run(*build_merge_node(label, props, merge_on, return_field="uid")): the
\* statement is built and, when the builder accepts the arguments, run
MergeNode(L, p, merge_on) ==
  LET q == build_merge_node(L, p, merge_on)
      x == IF q.err = "none" THEN ExecMergeNode(nodes, Used(nodes, rels, last.ret), q)
           ELSE [err |-> q.err, nodes |-> nodes, rows |-> {}]
  IN /\ Bounded(x.nodes, rels)
     /\ nodes' = x.nodes
     /\ \E r \in IF x.rows = {} THEN {Nil} ELSE x.rows :
          last' = [Call("merge_node", r, 0, x.err, IF q.err = "none" THEN 1 ELSE 0, 0)
                     EXCEPT !.args = LinkArgs(L, "", "", p), !.stmt = q]
     /\ UNCHANGED <<rels, clients>>

\* cypher_builder.build_link(start_label, rel_type, end_label, start_uid, end_uid, rel_props)
BuildLink(sl, T, el, start_uid, end_uid, p) ==
  /\ last' = [Call("build_link", Nil, 0, build_link(sl, T, el, start_uid, end_uid, p).err, 0, 0)
                EXCEPT !.args = LinkArgs(T, start_uid, end_uid, p),
                       !.stmt = build_link(sl, T, el, start_uid, end_uid, p)]
  /\ UNCHANGED <<nodes, rels, clients>>

\* A caller's upsert(name) up to the storage call: strip, the blank check,
\* the props and merge keys of the no-uid branch, validate_node, build_merge_node
ClientBuild(c, L, raw) ==
  LET name == _strip_or_none(raw)
      p == Prop1(KeyField(L), name)
      q == build_merge_node(L, p, {KeyField(L)})
      raised(e) == [clients[c] EXCEPT !.pc = "done", !.label = L, !.name = name, !.err = e]
  IN /\ clients[c].pc = "idle"
     /\ clients' = [clients EXCEPT ![c] =
                      IF name = "" THEN raised("ValueError")
                      ELSE IF NodeSchemaRejects(L, p) THEN raised(GSE)
                      ELSE IF q.err # "none" THEN raised(q.err)
                      ELSE [clients[c] EXCEPT !.pc = "built", !.label = L, !.name = name]]
     /\ UNCHANGED <<nodes, rels, last>>

\* the caller's storage call: its MERGE statement runs as one step of the store
ClientRun(c) ==
  LET cl == clients[c]
      q == build_merge_node(cl.label, Prop1(KeyField(cl.label), cl.name), {KeyField(cl.label)})
      used == Used(nodes, rels, last.ret) \cup UNION {clients[d].rows : d \in Clients}
      x == ExecMergeNode(nodes, used, q)
  IN /\ cl.pc = "built"
     /\ Bounded(x.nodes, rels)
     /\ nodes' = x.nodes
     /\ clients' = [clients EXCEPT ![c] =
                      IF x.err # "none" THEN [cl EXCEPT !.pc = "done", !.err = x.err]
                      ELSE [cl EXCEPT !.pc = "ran", !.rows = x.rows,
                                      !.created = (MergeMatches(nodes, q) = {})]]
     /\ UNCHANGED <<rels, last>>

\* the caller's return: rows[0][0]
ClientReturn(c) ==
  /\ clients[c].pc = "ran"
  /\ \E r \in clients[c].rows :
       /\ clients' = [clients EXCEPT ![c] = [@ EXCEPT !.pc = "done", !.ret = r]]
       /\ last' = Call("upsert", r, 0, "none", 1, 0)
  /\ UNCHANGED <<nodes, rels>>

\* ---------------------------------------------------------------- inputs
RawNames  == {<<" ", "a", " ">>, <<"b">>, <<" ">>}
UserUids  == {"u1"}
CandUids  == {"c1"}
\* uid arguments: absent, a caller-chosen uid, or the uid of a stored node
FeatureUidArgs(L) == {Nil} \cup UserUids \cup {m.uid : m \in {x \in nodes : x.label = L}}

\* link arguments with a blank id or name: (candidate id, feature id) and
\* (candidate id, feature name)
BlankIdArgs == {<<"", "u1">>, <<"c1", "">>, <<Nil, "u1">>}
BlankNameArgs == {<<"", <<" ", "a", " ">> >>, <<"c1", <<" ">> >>}

RelPropInputs ==
  { EmptyProps,
    Prop1("weight", "0.5"),
    Prop1("weight", "0.8"),
    Prop1("eid", "e1"),
    Prop1("updated_at", "t1"),
    Prop1("bogus", "3") }

\* ---------------------------------------------------------------- specifications
\* the dictionary repositories on their own: upsert by key, upsert by uid, delete
NextDict ==
  \/ \E L \in Labels, raw \in RawNames : \E uid \in FeatureUidArgs(L) : Upsert(L, raw, uid)
  \/ \E L \in Labels : \E uid \in FeatureUidArgs(L) : Delete(L, uid)

SpecDict == Init /\ [][NextDict]_vars

LinkLabels == {"Skill", "JobTitle"}
\* the relationships of one candidate: link_by_uids and link_by_name with
\* every rel_props input, unlink_by_uids, and the candidate's own upsert and delete
NextLink ==
  \/ \E raw \in {<<"x">>}, loc \in {Nil}, uid \in CandUids : UpsertCandidate(raw, loc, uid)
  \/ \E L \in LinkLabels, c \in CandUids, p \in RelPropInputs :
       \E f \in FeatureUidArgs(L) \ {Nil} : LinkByUids(L, c, f, p)
  \/ \E L \in LinkLabels, a \in BlankIdArgs : LinkByUids(L, a[1], a[2], EmptyProps)
  \/ \E L \in LinkLabels, c \in CandUids, raw \in {<<" ", "a", " ">>}, p \in RelPropInputs :
       LinkByName(L, c, raw, p)
  \/ \E L \in LinkLabels, a \in BlankNameArgs : LinkByName(L, a[1], a[2], EmptyProps)
  \/ \E L \in LinkLabels, c \in CandUids :
       \E f \in FeatureUidArgs(L) \ {Nil} : UnlinkByUids(L, c, f)
  \/ \E uid \in CandUids : DeleteCandidate(uid)

SpecLink == Init /\ [][NextLink]_vars

GraphLabels == {"Skill", "Language"}
GraphCands  == {"c1", "c2"}
GraphNames(L) == IF L = "Skill" THEN {<<" ", "a", " ">>, <<"b">>} ELSE {<<" ", "a", " ">>}
\* the graph of two candidates and two repositories: every repository
\* operation, with empty rel_props
Next ==
  \/ \E raw \in {<<"x">>}, loc \in {Nil}, uid \in GraphCands : UpsertCandidate(raw, loc, uid)
  \/ \E uid \in GraphCands : DeleteCandidate(uid)
  \/ \E L \in GraphLabels : \E raw \in GraphNames(L) : Upsert(L, raw, Nil)
  \/ \E L \in GraphLabels : \E uid \in FeatureUidArgs(L) \ {Nil} : Delete(L, uid)
  \/ \E L \in GraphLabels, c \in GraphCands :
       \E f \in FeatureUidArgs(L) \ {Nil} : LinkByUids(L, c, f, EmptyProps)
  \/ \E L \in GraphLabels, c \in GraphCands : \E raw \in GraphNames(L) :
       LinkByName(L, c, raw, EmptyProps)
  \/ \E L \in GraphLabels, c \in GraphCands :
       \E f \in FeatureUidArgs(L) \ {Nil} : UnlinkByUids(L, c, f)
  \/ \E L \in GraphLabels, c \in GraphCands : UnlinkAllForCandidate(L, c)

Spec == Init /\ [][Next]_vars

CandNames == {<<" ", "x", " ">>, <<"y">>}
CandLocations == {Nil, "hn", "sg"}
\* the candidate repository on its own: upsert without a uid, upsert with a
\* caller-chosen or a stored uid, delete
NextCand ==
  \/ \E raw \in CandNames, loc \in CandLocations :
       \E uid \in {Nil} \cup CandUids : UpsertCandidate(raw, loc, uid)
  \/ \E uid \in CandUids \cup {c.uid : c \in CandNodes(nodes)} : DeleteCandidate(uid)

SpecCand == Init /\ [][NextCand]_vars

\* ---- the ranking engine on a stored graph
\* the facets of one candidate: its salary_max, experience_years, location and
\* remote_ok, its HAS_SKILL relationship to the skill Py (level_num, years), its
\* SPEAKS relationship to the language En (level_num) and its HAS_TITLE
\* relationship to the job title Dev
NoEdge == [has |-> FALSE, level_num |-> NullNum, years |-> NullNum]
Edge(level_num, years) == [has |-> TRUE, level_num |-> level_num, years |-> years]
PlainProfile ==
  [salary_max |-> NullNum, experience_years |-> NullNum, location |-> Nil,
   remote_ok |-> Nil, skill |-> NoEdge, lang |-> NoEdge, title |-> NoEdge]

\* the profiles: the plain candidate changed in one group of facets
Profiles ==
  {[PlainProfile EXCEPT !.skill = e] :
     e \in {NoEdge, Edge(4, 4), Edge(4, 20), Edge(NullNum, 4), Edge(2, NullNum)}}
  \cup {[PlainProfile EXCEPT !.salary_max = sal, !.experience_years = e] :
          sal \in {NullNum, 1000, 3000}, e \in {NullNum, 5}}
  \cup {[PlainProfile EXCEPT !.lang = l, !.title = t, !.location = loc] :
          l \in {NoEdge, Edge(2, NullNum), Edge(5, NullNum)},
          t \in {NoEdge, Edge(NullNum, NullNum)}, loc \in {Nil, "Hanoi"}}
  \cup {[PlainProfile EXCEPT !.remote_ok = b] : b \in {"true", "false"}}
  \cup {[PlainProfile EXCEPT !.skill = Edge(4, 2)],
        [PlainProfile EXCEPT !.skill = Edge(NullNum, 4), !.title = Edge(NullNum, NullNum)]}

MatchCands == {"c1", "c2"}
MatchName(uid) == IF uid = "c1" THEN "x" ELSE "y"

StoredNode(L, uid, key) ==
  [BlankNode(<<<<L, uid>>, 1>>, L) EXCEPT !.uid = uid, !.key = key, !.created_at = NOW]
StoredRel(T, a, b, e) ==
  [id |-> <<<<T, a.id, b.id>>, 1>>, type |-> T, src |-> a.id, dst |-> b.id,
   props |-> [NoRelProps EXCEPT !["eid"] = T \o ":" \o a.uid \o ">" \o b.uid \o "#1",
                                !["created_at"] = NOW, !["updated_at"] = NOW,
                                !["level_num"] = e.level_num, !["years"] = e.years]]

PyNode == StoredNode("Skill", "Skill:Py#1", "Py")
EnNode == StoredNode("Language", "Language:En#1", "En")
DevNode == StoredNode("JobTitle", "JobTitle:Dev#1", "Dev")
CandNode(uid, pr) ==
  [StoredNode(Candidate, uid, MatchName(uid)) EXCEPT
     !.salary_max = pr.salary_max, !.experience_years = pr.experience_years,
     !.location = pr.location, !.remote_ok = pr.remote_ok]

\* the store that holds the candidates of MatchCands with the profiles prof
GraphNodes(prof) == {PyNode, EnNode, DevNode} \cup {CandNode(u, prof[u]) : u \in MatchCands}
GraphRels(prof) ==
  {StoredRel("HAS_SKILL", CandNode(u, prof[u]), PyNode, prof[u].skill) :
     u \in {v \in MatchCands : prof[v].skill.has}}
  \cup {StoredRel("SPEAKS", CandNode(u, prof[u]), EnNode, prof[u].lang) :
          u \in {v \in MatchCands : prof[v].lang.has}}
  \cup {StoredRel("HAS_TITLE", CandNode(u, prof[u]), DevNode, prof[u].title) :
          u \in {v \in MatchCands : prof[v].title.has}}

InitMatch ==
  /\ \E prof \in [MatchCands -> Profiles] :
       /\ nodes = GraphNodes(prof)
       /\ rels = GraphRels(prof)
  /\ last = NoCall
  /\ clients = [c \in Clients |-> IdleClient]

\* requests: the empty request changed in one constraint or preference
MustSkill(name, min_level, min_years) ==
  [name |-> name, min_level |-> min_level, min_years |-> min_years]
MustLang(name, min_level) == [name |-> name, min_level |-> min_level]
NiceSkill(name, weight, prefer_min_years) ==
  [name |-> name, weight |-> weight, prefer_min_years |-> prefer_min_years,
   prefer_level |-> Nil]

MustRequests ==
  { EmptyReq,
    [EmptyReq EXCEPT !.salary_max = 2000],
    [EmptyReq EXCEPT !.remote_ok = "true"],
    [EmptyReq EXCEPT !.must_skills = <<MustSkill(<<"P", "y">>, "advanced", 5)>>],
    [EmptyReq EXCEPT !.must_skills = <<MustSkill(<<"p", "y">>, Nil, NullNum)>>],
    [EmptyReq EXCEPT !.must_langs = <<MustLang(<<"E", "n">>, "B2")>>],
    [EmptyReq EXCEPT !.must_langs = <<MustLang(<<"e", "n">>, "native")>>],
    [EmptyReq EXCEPT !.job_titles_any = << <<"D", "e", "v">>, <<"o", "p", "s">> >>],
    [EmptyReq EXCEPT !.location_any = << <<" ", "H", "a", "n", "o", "i">> >>] }

NiceRequests ==
  { [EmptyReq EXCEPT !.nice_skills = <<NiceSkill(<<"P", "y">>, 10, 0)>>],
    [EmptyReq EXCEPT !.nice_skills = <<NiceSkill(<<"P", "y">>, 20, 0)>>],
    [EmptyReq EXCEPT !.nice_skills = <<NiceSkill(<<"P", "y">>, 10, 10)>>],
    [EmptyReq EXCEPT !.nice_skills = <<NiceSkill(<<"P", "y">>, 10, 0),
                                       NiceSkill(<<"G", "o">>, 10, 0)>>],
    [EmptyReq EXCEPT !.nice_titles = << <<"D", "e", "v">> >>],
    [EmptyReq EXCEPT !.nice_langs = << <<"E", "n">> >>],
    [EmptyReq EXCEPT !.nice_langs = << <<"E", "n">>, <<"F", "r">> >>],
    [EmptyReq EXCEPT !.location_preference = <<"H", "a", "n", "o", "i">>],
    [EmptyReq EXCEPT !.nice_skills = <<NiceSkill(<<"P", "y">>, 10, 0)>>,
                     !.nice_titles = << <<"D", "e", "v">> >>],
    [EmptyReq EXCEPT !.nice_skills = <<NiceSkill(<<"P", "y">>, 10, 0)>>,
                     !.nice_titles = << <<"D", "e", "v">> >>,
                     !.weights.skills = 0, !.weights.job_titles = 100],
    [EmptyReq EXCEPT !.nice_skills = <<NiceSkill(<<"P", "y">>, 10, 0)>>,
                     !.weights.education = 50, !.weights.keywords = 50],
    [EmptyReq EXCEPT !.nice_titles = << <<"D", "e", "v">> >>, !.explain = FALSE] }

TopKs == {1, 2}

NextMatch ==
  \/ \E req \in MustRequests \cup NiceRequests, k \in TopKs :
       MatchCandidates([req EXCEPT !.top_k = k])
  \/ \E req \in MustRequests : QueryCandidates(req)

SpecMatch == InitMatch /\ [][NextMatch]_vars

\* ---- the schema checks and the query builder
\* props of a node of label L: the key alone, with a uid, with a timestamp, a key
\* of a wrong type or None, a missing key, an undeclared key and, for a
\* Candidate, experience_years of each type
NodePropInputs(L) ==
  LET K == KeyField(L)
  IN { Prop1(K, "a"), Prop1(K, "b"), Prop1(K, "3"), Prop1(K, Nil), Prop1("uid", "u1"),
       Prop2(K, "a", "uid", "u1"), Prop2(K, "a", "uid", Nil),
       Prop2(K, "a", "created_at", "t1"), Prop2(K, "a", "created_at", Nil),
       Prop2(K, "a", "bogus", "3") }
     \cup (IF L = Candidate
           THEN {Prop2(K, "a", "experience_years", v) : v \in {"3", "0.5", "True", "x", Nil}}
           ELSE {})

NextBuilder ==
  \/ \E L \in {Candidate, "Skill", "JobTitle"} : \E p \in NodePropInputs(L) : ValidateNode(L, p)
  \/ \E T \in {"HAS_SKILL"}, sl \in {Candidate, "Skill"}, el \in {"Skill", "JobTitle"} :
       \E p \in RelPropInputs \cup {Prop1("weight", v) : v \in {"3", "True", "x", Nil}} :
         ValidateRelationship(T, sl, el, p)
  \/ \E L \in {"Skill"} :
       \E p \in NodePropInputs(L), merge_on \in {{KeyField(L)}, {"uid"}, {}} :
         MergeNode(L, p, merge_on)
  \/ \E L \in {"Skill"}, sl \in {Candidate, "Skill"}, p \in RelPropInputs :
       \E ids \in {<<"c1", "u1">>, <<"c2", "u1">>, <<"c1", "u2">>} :
         BuildLink(sl, RelTypeOf(L), L, ids[1], ids[2], p)

SpecBuilder == Init /\ [][NextBuilder]_vars

ConcLabels == {"Skill", "Project"}
\* callers that run upsert(name) concurrently with the same name, on a store
\* that earlier upsert calls have filled
NextConc ==
  \/ \E L \in ConcLabels, uid \in {Nil} \cup UserUids :
       /\ \A c \in Clients : clients[c].pc = "idle"
       /\ Upsert(L, <<" ", "a", " ">>, uid)
  \/ \E c \in Clients, L \in ConcLabels : ClientBuild(c, L, <<" ", "a", " ">>)
  \/ \E c \in Clients : ClientRun(c)
  \/ \E c \in Clients : ClientReturn(c)

SpecConc == Init /\ [][NextConc]_vars

\* ---------------------------------------------------------------- properties
\* the relationships between the candidate and the feature node that the
\* arguments a of a link call name
LinkedRels(ns, rs, a) ==
  {r \in rs : /\ r.type = RelTypeOf(a.label)
              /\ \E c \in ns : c.label = Candidate /\ c.uid = a.cand /\ c.id = r.src
              /\ \E m \in ns : m.label = a.label /\ m.uid = a.feat /\ m.id = r.dst}

\* TRUE iff this step is a successful link_by_uids call that follows a
\* successful link_by_uids call on the same (candidate, feature) pair
LinkedTwice ==
  /\ last.op = "link_by_uids" /\ last.err = "none"
  /\ last'.op = "link_by_uids" /\ last'.err = "none"
  /\ last'.args.label = last.args.label
  /\ last'.args.cand = last.args.cand
  /\ last'.args.feat = last.args.feat

\* C1: when upsert(k) without uid succeeds for a dictionary label, a second
\* upsert(k) with the same key succeeds, returns the same uid, and leaves
\* exactly one node of that label with key k.
C1_UpsertTwiceSameUid ==
  [][\A L \in Labels, raw \in RawNames :
       (last'.op = "upsert" /\ last'.err = "none" /\ Upsert(L, raw, Nil)) =>
         \A o \in UpsertOutcomes(nodes', rels', last'.ret, L, raw, Nil) :
           /\ o.err = "none"
           /\ o.ret = last'.ret
           /\ Cardinality({m \in o.nodes : m.label = L /\ m.key = _strip_or_none(raw)}) = 1]_vars

\* C2: there is at most one relationship of a type from a given candidate to a
\* given feature node, whatever link calls were made.
C2_AtMostOneRel ==
  \A r1, r2 \in rels :
    (r1.type = r2.type /\ r1.src = r2.src /\ r1.dst = r2.dst) => r1 = r2

\* C2 witness: one relationship that two link calls with different rel_props wrote
C2_LinkedAgain ==
  /\ Cardinality(rels) = 1
  /\ \E r \in rels : r.props["weight"] = "0.8" /\ r.props["updated_at"] = "t1"

\* C3 as stated: after link_by_uids with P1 and then with P2 on the same pair,
\* every key of P2 holds P2's value and every key that occurs only in P1 holds
\* P1's value.
C3_OverlayAllKeys ==
  [][LinkedTwice =>
       \A r \in LinkedRels(nodes', rels', last'.args) : \A k \in RelKeys :
         /\ k \in last'.args.props.dom => r.props[k] = last'.args.props.val[k]
         /\ k \in last.args.props.dom \ last'.args.props.dom
              => r.props[k] = last.args.props.val[k]]_vars

\* C3 amended: after link_by_uids with P1 and then with P2 on the same pair,
\* every key of P2 holds P2's value, every key other than updated_at that
\* occurs only in P1 holds P1's value, and updated_at, when P2 does not carry
\* it, holds the time of the second call.
C3_OverlayExceptUpdatedAt ==
  [][LinkedTwice =>
       \A r \in LinkedRels(nodes', rels', last'.args) :
         /\ \A k \in RelKeys :
              /\ k \in last'.args.props.dom => r.props[k] = last'.args.props.val[k]
              /\ (k \in last.args.props.dom \ last'.args.props.dom /\ k # "updated_at")
                   => r.props[k] = last.args.props.val[k]
         /\ "updated_at" \notin last'.args.props.dom => r.props["updated_at"] = NOW]_vars

\* C3 witness: a link_by_uids call with an eid alone has left the weight an
\* earlier call on the pair had stored
C3_WeightKept ==
  /\ last.op = "link_by_uids" /\ last.err = "none"
  /\ last.args.props = Prop1("eid", "e1")
  /\ \E r \in LinkedRels(nodes, rels, last.args) :
       r.props["weight"] = "0.5" /\ r.props["eid"] = "e1"

\* C4: a successful link_by_uids or link_by_name call on a pair that is already
\* linked returns the eid the relationship had and leaves that eid unchanged.
C4_EidStable ==
  [][(last'.op \in {"link_by_uids", "link_by_name"} /\ last'.err = "none") =>
       \A r \in LinkedRels(nodes, rels, last'.args) :
         /\ last'.ret = r.props["eid"]
         /\ \A r2 \in rels' : r2.id = r.id => r2.props["eid"] = r.props["eid"]]_vars

\* C5: a link call whose rel_props carry an undeclared key raises
\* GraphSchemaError and has made no storage call.
C5_UnknownKeyNoStorageCall ==
  last.unknown => (last.err = GSE /\ last.calls = 0)

\* C6: after delete(uid) of a feature node no relationship to or from that node
\* remains, list_for_candidate of the repository returns it for no candidate,
\* and returns nothing for a candidate whose links of that type all went to it.
C6_DeleteCascades ==
  [][\A L \in GraphLabels : \A uid \in FeatureUidArgs(L) \ {Nil} :
       (last'.op = "delete" /\ Delete(L, uid)) =>
         LET D == {m.id : m \in {x \in nodes : x.label = L /\ x.uid = uid}}
         IN /\ \A r \in rels' : r.src \notin D /\ r.dst \notin D
            /\ \A c \in GraphCands :
                 LET before == list_for_candidate(nodes, rels, L, c)
                     after == list_for_candidate(nodes', rels', L, c)
                 IN /\ \A row \in after : row.uid # uid
                    /\ (\A row \in before : row.uid = uid) => after = {}]_vars

\* C6 witness: a delete removed a feature node together with a relationship of
\* a candidate that is still stored
C6_DeletedLinkedNode ==
  /\ last.op = "delete" /\ last.cnt = 1 /\ last.rdel >= 1
  /\ CandNodes(nodes) # {}

\* C7: unlink_all_for_candidate(c) removes exactly the relationships of the
\* repository's type that start at candidate c, returns their count without
\* error, and leaves every other relationship and every node unchanged.
C7_UnlinkAllFrame ==
  [][\A L \in GraphLabels, c \in GraphCands :
       (last'.op = "unlink_all_for_candidate" /\ UnlinkAllForCandidate(L, c)) =>
         LET mine(r) == /\ r.type = RelTypeOf(L)
                        /\ \E n \in nodes : n.label = Candidate /\ n.uid = c /\ n.id = r.src
         IN /\ rels' = {r \in rels : ~mine(r)}
            /\ last'.cnt = Cardinality({r \in rels : mine(r)})
            /\ last'.err = "none"
            /\ nodes' = nodes]_vars

\* C7 witness: unlink_all_for_candidate removed a relationship and another
\* relationship is still stored
C7_UnlinkedSomeKeptOthers ==
  /\ last.op = "unlink_all_for_candidate" /\ last.cnt >= 1
  /\ rels # {}

\* C8: no two nodes of a dictionary label have the same natural-key value.
C8_NaturalKeyUnique ==
  \A n1, n2 \in DictNodes(nodes) :
    (n1.label = n2.label /\ n1.key = n2.key) => n1 = n2

\* C9: among concurrent upsert(k) calls with the same key on one repository, at
\* most one creates a node and all that return, return the same uid.
C9_ConcurrentUpsertOneUid ==
  \A L \in ConcLabels :
    LET same == {c \in Clients : clients[c].label = L}
        returned == {c \in same : clients[c].pc = "done" /\ clients[c].err = "none"}
    IN /\ Cardinality({c \in same : clients[c].created}) <= 1
       /\ \A c1, c2 \in returned : clients[c1].ret = clients[c2].ret

\* C10: delete(uid) returns 1 and removes the node when a node with that uid
\* exists, returns 0 and changes nothing when none exists, and a second
\* delete(uid) returns 0 and changes nothing; no call raises.
C10_DeleteCount ==
  [][\A L \in GraphLabels : \A uid \in FeatureUidArgs(L) \ {Nil} :
       (last'.op = "delete" /\ Delete(L, uid)) =>
         LET E == {m \in nodes : m.label = L /\ m.uid = uid}
             again == delete(nodes', rels', L, uid)
         IN /\ last'.err = "none"
            /\ E # {} => (last'.cnt = 1 /\ nodes' = nodes \ E)
            /\ E = {} => (last'.cnt = 0 /\ nodes' = nodes /\ rels' = rels)
            /\ again.ret = 0 /\ again.nodes = nodes' /\ again.rels = rels']_vars

\* C10 witness: a delete returned 1 and other nodes are still stored
C10_DeletedOne ==
  /\ last.op = "delete" /\ last.cnt = 1
  /\ DictNodes(nodes) # {}

\* C11: a call of upsert with a key that is blank after trimming, or of
\* link_by_uids or link_by_name with a blank candidate id, feature id or
\* feature name, raises the input error and has made no storage call.
C11_BlankInputNoStorageCall ==
  last.blank => (last.err = "ValueError" /\ last.calls = 0)

\* C12: upsert_candidate without a uid creates a new Candidate node with a uid
\* no stored node has, and a second such call with the same name returns a
\* different uid and leaves two Candidate nodes of that name.
C12_NoUidAlwaysCreates ==
  [][\A raw \in CandNames, loc \in CandLocations :
       (last'.op = "upsert_candidate" /\ UpsertCandidate(raw, loc, Nil)) =>
         /\ Cardinality(CandNodes(nodes')) = Cardinality(CandNodes(nodes)) + 1
         /\ last'.ret \notin {c.uid : c \in nodes}
         /\ \A o \in upsert_candidate(nodes', rels', last'.ret, raw, loc, Nil) :
              /\ o.ret # last'.ret
              /\ Cardinality({c \in CandNodes(o.nodes) : c.key = _strip_or_none(raw)}) >= 2]_vars

\* the nodes with updated_at left out of the comparison
SansUpdatedAt(ns) == {[c EXCEPT !.updated_at = Nil] : c \in ns}

CandOf(uid) == CHOOSE c \in CandNodes(nodes) : c.uid = uid
ReturnedUids == {last.rows[i].uid : i \in DOMAIN last.rows}
\* the ordinal of a textual level by the fixed tables; no level is no constraint
SkillOrdinal(level) == IF level = Nil THEN 0 ELSE SKILL_LEVEL_MAP[level]
LangOrdinal(level) == IF level = Nil THEN 0 ELSE LANG_LEVEL_MAP[level]

\* C14: with must_have.salary_max = M, match_candidates and query_candidates
\* return no candidate whose salary_max exceeds M, and (when the result is not
\* cut at top_k / limit) return every candidate without a salary_max that meets
\* the other must-have constraints.
C14_SalaryMaxFilter ==
  (last.op \in {"match_candidates", "query_candidates"} /\ last.req.salary_max # NullNum) =>
    LET P == IF last.op = "match_candidates" THEN match_params(last.req)
             ELSE query_params(last.req)
        others == [P EXCEPT !.salaryMax = NullNum]
        room == IF last.op = "match_candidates" THEN P.topK ELSE P.limit
    IN /\ \A u \in ReturnedUids :
            CandOf(u).salary_max = NullNum \/ CandOf(u).salary_max <= last.req.salary_max
       /\ Len(last.rows) < room =>
            \A c \in CandNodes(nodes) :
              (c.salary_max = NullNum /\ MustHaveHolds(nodes, rels, c, others))
                => c.uid \in ReturnedUids

\* C15: every candidate match_candidates returns has, for every must-have skill
\* (name, min_level, min_years), a HAS_SKILL relationship to the skill of that
\* lower-cased name with level_num >= the ordinal of min_level and years >=
\* min_years; holds one of job_titles_any when that list is not empty; and has
\* a location in location_any when that list is not empty.
C15_ReturnedMeetMustHave ==
  last.op = "match_candidates" =>
    \A u \in ReturnedUids :
      LET c == CandOf(u)
          req == last.req
      IN /\ \A i \in DOMAIN req.must_skills :
              \E x \in Facets(nodes, rels, c, "HAS_SKILL", "Skill") :
                /\ toLower(x[2].key) = _lc(req.must_skills[i].name)
                /\ coalesceNum(x[1].props["level_num"], 0)
                     >= SkillOrdinal(req.must_skills[i].min_level)
                /\ coalesceNum(x[1].props["years"], 0)
                     >= coalesceNum(req.must_skills[i].min_years, 0)
         /\ Len(req.job_titles_any) > 0 =>
              \E x \in Facets(nodes, rels, c, "HAS_TITLE", "JobTitle") :
                \E i \in DOMAIN req.job_titles_any : toLower(x[2].key) = _lc(req.job_titles_any[i])
         /\ Len(req.location_any) > 0 =>
              /\ c.location # Nil
              /\ \E i \in DOMAIN req.location_any : toLower(c.location) = _lc(req.location_any[i])

\* C16: every candidate match_candidates returns has, for every must-have
\* language (name, min_level L), a SPEAKS relationship to that language whose
\* level_num is >= the ordinal of L in the table A1..C2 -> 1..6, native -> 7.
C16_LanguageLevelAdmits ==
  last.op = "match_candidates" =>
    \A u \in ReturnedUids : \A i \in DOMAIN last.req.must_langs :
      \E x \in Facets(nodes, rels, CandOf(u), "SPEAKS", "Language") :
        /\ toLower(x[2].key) = _lc(last.req.must_langs[i].name)
        /\ coalesceNum(x[1].props["level_num"], 0)
             >= LangOrdinal(last.req.must_langs[i].min_level)

\* TRUE iff the candidates a, b stand in the tie-break order: experience_years
\* non-increasing, and at equal experience_years salary_max non-decreasing with
\* a missing salary_max last
TieBreakOrdered(a, b) ==
  LET ea == coalesceNum(a.experience_years, 0)
      eb == coalesceNum(b.experience_years, 0)
  IN /\ ea >= eb
     /\ ea = eb => \/ b.salary_max = NullNum
                   \/ (a.salary_max # NullNum /\ a.salary_max <= b.salary_max)

\* C17: the items of match_candidates are in non-increasing order of score, at
\* equal score in the tie-break order, and are at most top_k.
C17_ItemsSorted ==
  last.op = "match_candidates" =>
    LET items == match_items(last.rows)
    IN /\ Len(items) <= last.req.top_k
       /\ \A i, j \in DOMAIN items : i < j =>
            /\ items[i].score >= items[j].score
            /\ items[i].score = items[j].score =>
                 TieBreakOrdered(CandOf(items[i].uid), CandOf(items[j].uid))

NiceEmpty(req) ==
  /\ req.nice_skills = <<>> /\ req.nice_titles = <<>> /\ req.nice_langs = <<>>
  /\ req.location_preference = <<>>

\* the must-have constraints as specified: a candidate without salary_max
\* passes the salary constraint
MeetsMustHave(c, req) ==
  /\ MustHaveHolds(nodes, rels, c, [match_params(req) EXCEPT !.salaryMax = NullNum])
  /\ req.salary_max = NullNum \/ c.salary_max = NullNum \/ c.salary_max <= req.salary_max

\* C18: with an empty nice_to_have and no weights override match_candidates
\* returns the candidates that satisfy the must-have constraints (all of them,
\* up to top_k), each with score 0.0, in the tie-break order.
C18_EmptyNiceAllZero ==
  (last.op = "match_candidates" /\ NiceEmpty(last.req)) =>
    LET items == match_items(last.rows)
        Q == {c \in CandNodes(nodes) : MeetsMustHave(c, last.req)}
    IN /\ ReturnedUids \subseteq {c.uid : c \in Q}
       /\ Len(items) = IF Cardinality(Q) < last.req.top_k THEN Cardinality(Q)
                       ELSE last.req.top_k
       /\ \A i \in DOMAIN items : items[i].score = 0
       /\ \A i, j \in DOMAIN items : i < j =>
            TieBreakOrdered(CandOf(items[i].uid), CandOf(items[j].uid))
       /\ \A c \in Q : c.uid \notin ReturnedUids =>
            \A u \in ReturnedUids : TieBreakOrdered(CandOf(u), c)

\* presence x (0.7 x level_num / 4 + 0.3 x min(years, prefer_min_years + 5) / 5)
\* of one nice-to-have skill item for candidate c, in 1/ScoreUnit
ClaimedSkillTerm(c, item) ==
  LET hit == {x \in Facets(nodes, rels, c, "HAS_SKILL", "Skill") : toLower(x[2].key) = _lc(item.name)}
      x == CHOOSE y \in hit : TRUE
      years == coalesceNum(x[1].props["years"], 0)
      cap == coalesceNum(item.prefer_min_years, 0) + 10
  IN IF hit = {} THEN 0
     ELSE 20 * (35 * x[1].props["level_num"] + 6 * (IF years <= cap THEN years ELSE cap))

\* C19: for every returned candidate whose HAS_SKILL relationships carry a
\* level_num, the skill criterion score is the average over the nice-to-have
\* skill items of presence x (0.7 x level_num/4 + 0.3 x min(years,
\* prefer_min_years + 5)/5), and 0 when there is no such item.
C19_SkillScoreIsAverage ==
  last.op = "match_candidates" =>
    \A i \in DOMAIN last.rows :
      LET c == CandOf(last.rows[i].uid)
          items == last.req.nice_skills
          terms == [j \in DOMAIN items |-> ClaimedSkillTerm(c, items[j])]
      IN (\A x \in Facets(nodes, rels, c, "HAS_SKILL", "Skill") : x[1].props["level_num"] # NullNum)
           => last.rows[i].S_skills =
                IF Len(items) = 0 THEN 0 ELSE ReduceSum(terms, Len(terms)) \div Len(items)

\* C20: each of the four criterion scores the statement computes for a returned
\* candidate, when it is a number, lies in [0, 1].
C20_CriterionScoresInUnit ==
  last.op = "match_candidates" =>
    \A i \in DOMAIN last.rows :
      \A x \in {last.rows[i].S_skills, last.rows[i].S_titles,
                last.rows[i].S_langs, last.rows[i].S_loc} :
        x # NullNum => (0 <= x /\ x <= ScoreUnit)

\* C21: the score of every item of match_candidates is W.skills x S_skills +
\* W.job_titles x S_titles + W.languages x S_languages + W.location x S_location
\* with W[k] the request's override when given and the default 0.6, 0.1, 0.05,
\* 0.05 otherwise, and the education and keywords weights change nothing: the
\* request with other values for these two weights has the same results.
C21_FinalScoreIsWeightedSum ==
  last.op = "match_candidates" =>
    LET req == last.req
        W == [skills |-> IF req.weights.skills # NullNum THEN req.weights.skills ELSE 60,
              job_titles |-> IF req.weights.job_titles # NullNum
                             THEN req.weights.job_titles ELSE 10,
              languages |-> IF req.weights.languages # NullNum
                            THEN req.weights.languages ELSE 5,
              location |-> IF req.weights.location # NullNum
                           THEN req.weights.location ELSE 5]
        items == match_items(last.rows)
    IN /\ \A i \in DOMAIN items :
            items[i].score = RoundedScore(W.skills * items[i].s_sk
                                          + W.job_titles * items[i].s_ti
                                          + W.languages * items[i].s_la
                                          + W.location * items[i].s_lo)
       /\ \A e, k \in {NullNum, 0, 50} :
            ExecMatchAndScore(nodes, rels,
                              match_params([req EXCEPT !.weights.education = e,
                                                       !.weights.keywords = k]))
              = ExecMatchAndScore(nodes, rels, match_params(req))

\* C22: with explain set, the reasons of every item of match_candidates have
\* exactly one entry for each criterion whose contribution (weight x score) is
\* not zero and none for a criterion whose contribution is zero, and an entry
\* carries the criterion's weight and the contribution rounded to 6 digits.
C22_ReasonsForNonzero ==
  (last.op = "match_candidates" /\ last.req.explain) =>
    LET W == _merge_weights(last.req.weights)
    IN \A i \in DOMAIN last.rows :
         LET row == last.rows[i]
             S == [skills |-> FloatOrZero(row.S_skills), job_titles |-> FloatOrZero(row.S_titles),
                   languages |-> FloatOrZero(row.S_langs), location |-> FloatOrZero(row.S_loc)]
             rs == match_reasons(row, W)
         IN \A k \in DOMAIN S :
              /\ Cardinality({r \in rs : r.kind = k}) = IF W[k] * S[k] # 0 THEN 1 ELSE 0
              /\ \A r \in rs : r.kind = k =>
                   r.weight = W[k] /\ r.contribution = RoundedScore(W[k] * S[k])

\* C23: for the same store and the same must_have block, query_candidates (its
\* page holds every admitted candidate) and match_candidates (with top_k not
\* below the number of candidates) admit the same set of candidates.
C23_QueryAdmitsAsMatch ==
  /\ last.op = "query_candidates" =>
       ReturnedUids = {c.uid : c \in {d \in CandNodes(nodes) :
                         MustHaveHolds(nodes, rels, d, match_params(last.req))}}
  /\ (last.op = "match_candidates" /\ last.req.top_k >= Cardinality(CandNodes(nodes))) =>
       ReturnedUids = {c.uid : c \in {d \in CandNodes(nodes) :
                         MustHaveHolds(nodes, rels, d, query_params(last.req))}}

\* C24: validate_node(label, props) raises GraphSchemaError exactly when props
\* has a key the label does not declare, or lacks a required property, or has a
\* non-null value whose runtime type is not in the declared type set of its
\* key; otherwise it returns without error; it never changes the store.
C24_ValidateNodeRejectsExactly ==
  [][last'.op = "validate_node" =>
       LET L == last'.args.label
           p == last'.args.props
       IN /\ last'.err \in {GSE, "none"}
          /\ (last'.err = GSE) <=>
               \/ \E k \in p.dom : k \notin NodeProperties(L)
               \/ \E k \in NodeRequired(L) : k \notin p.dom
               \/ \E k \in p.dom : p.val[k] # Nil /\ PyType(p.val[k]) \notin PropTypes(k)
          /\ nodes' = nodes /\ rels' = rels]_vars

\* C25: validate_relationship(relType, startLabel, endLabel, props) raises
\* GraphSchemaError whenever (startLabel, endLabel) is not the pair declared
\* for relType, and with the declared pair it raises exactly when props has an
\* undeclared key or a non-null value whose type is not declared for its key.
C25_ValidateRelationshipRejects ==
  last.op = "validate_relationship" =>
    LET T == last.args.label
        sl == last.args.cand
        el == last.args.feat
        p == last.args.props
    IN IF sl # RelStart(T) \/ el # RelEnd(T) THEN last.err = GSE
       ELSE /\ last.err \in {GSE, "none"}
            /\ (last.err = GSE) <=>
                 \/ \E k \in p.dom : k \notin RelProperties(T)
                 \/ \E k \in p.dom : p.val[k] # Nil /\ PyType(p.val[k]) \notin PropTypes(k)

\* C26: when the statement of build_merge_node matches stored nodes, each of
\* them has the same uid after the statement as before, whatever props and
\* merge_on the builder accepted; a node the statement creates has the uid
\* that was supplied, and a fresh one only when none was supplied.
C26_MatchKeepsUid ==
  [][(last'.op = "merge_node" /\ last'.err = "none") =>
       LET q == last'.stmt
       IN /\ \A m \in MergeMatches(nodes, q) :
               \E d \in nodes' : d.id = m.id /\ d.uid = m.uid
          /\ \A d \in nodes' :
               (d.id \notin {m.id : m \in nodes} /\ q.params["uid"] # Nil) =>
                 d.uid = q.params["uid"]]_vars

\* C27: when a repeated upsert's statement matches a stored node, a property
\* supplied as null keeps its stored value, a property supplied non-null takes
\* the supplied value, and a property that is not supplied keeps its stored
\* value (updated_at, which the statement stamps, aside).
C27_NullKeepsStored ==
  [][(last'.op = "merge_node" /\ last'.err = "none") =>
       LET q == last'.stmt
           p == last'.args.props
       IN \A m \in MergeMatches(nodes, q) :
            \E d \in nodes' :
              /\ d.id = m.id
              /\ \A k \in {"uid", "created_at", KeyField(q.label)} :
                   NodeGet(d, k) = IF k \in p.dom /\ p.val[k] # Nil THEN p.val[k]
                                   ELSE NodeGet(m, k)]_vars

\* C28: the statement text of build_merge_node and of build_link is the same
\* for any two accepted calls that differ only in the values of props /
\* rel_props or in start_uid / end_uid, and the values are in the returned
\* bound parameters.
C28_TextIndependentOfValues ==
  /\ (last.op = "merge_node" /\ last.stmt.err = "none") =>
       /\ last.stmt.params = last.args.props.val
       /\ \A p2 \in NodePropInputs(last.args.label) :
            LET q2 == build_merge_node(last.args.label, p2, last.stmt.merge_on)
            IN (p2.dom = last.args.props.dom /\ q2.err = "none") =>
                 StmtText(q2) = StmtText(last.stmt)
  /\ (last.op = "build_link" /\ last.stmt.err = "none") =>
       /\ last.stmt.params.rel = last.args.props.val
       /\ last.stmt.params.start_uid = last.args.cand
       /\ last.stmt.params.end_uid = last.args.feat
       /\ \A p2 \in RelPropInputs, su \in {"c1", "c2"}, eu \in {"u1", "u2"} :
            LET q2 == build_link(last.stmt.start_label, last.stmt.rel_type,
                                 last.stmt.end_label, su, eu, p2)
            IN (p2.dom = last.args.props.dom /\ q2.err = "none") =>
                 StmtText(q2) = StmtText(last.stmt)

\* C28 witness: a statement was built for props with a uid, for which the
\* inputs hold accepted props with the same keys and another uid value
C28_BuiltWithUidValue ==
  /\ last.op = "merge_node" /\ last.stmt.err = "none"
  /\ last.args.props = Prop2("name", "a", "uid", "u1")
  /\ last.stmt.merge_on = {"name"}

\* C29: every stored relationship that carries a weight has weight >= 0 and
\* cost = 1 / max(weight, 1e-6): weight is never written without cost.
C29_CostFollowsWeight ==
  \A r \in rels :
    r.props["weight"] # Nil =>
      /\ r.props["weight"] \in {"0.5", "0.8"}
      /\ r.props["cost"] = (IF r.props["weight"] = "0.5" THEN "2.0" ELSE "1.25")

\* C30: link_by_uids with non-blank ids of which one matches no node of its
\* label leaves nodes and relationships as they were, returns no eid and ends
\* with an error.
C30_UnknownUidNoEffect ==
  [][(/\ last'.op = "link_by_uids"
      /\ ~last'.blank
      /\ \/ ~\E c \in CandNodes(nodes) : c.uid = last'.args.cand
         \/ ~\E f \in nodes : f.label = last'.args.label /\ f.uid = last'.args.feat)
     => (/\ nodes' = nodes
         /\ rels' = rels
         /\ last'.err # "none"
         /\ last'.ret = Nil)]_vars

\* C30 witness: link_by_uids ran its statement for a stored candidate and a
\* feature uid that no node has, and failed on the empty result
C30_LinkedToMissingFeature ==
  /\ last.op = "link_by_uids" /\ last.err = "IndexError" /\ last.calls = 1
  /\ \E c \in CandNodes(nodes) : c.uid = last.args.cand
  /\ ~\E f \in nodes : f.uid = last.args.feat

====
